---- MODULE Spec2Model ----
(***************************************************************************)
(* The drink API of Projectt/backend/src/api.py: five routes over one      *)
(* table of drinks, four of them gated by a permission.                    *)
(*                                                                         *)
(* The table is a set of rows [id, title, recipe]; recipe is the           *)
(* serialized (json.dumps) form of the recipe the request carried.  A      *)
(* handler is an operator from a request and a table to the set of its     *)
(* possible outcomes [resp, store]; the actions apply one handler to one   *)
(* request.  auth/auth.py and database/models.py are not part of the       *)
(* sources at hand: requires_auth, the table's insert/update/delete and    *)
(* short()/long() follow the written specification of those components.    *)
(***************************************************************************)
EXTENDS Integers, Sequences, FiniteSets, TLC

\* Drink ids range over 1..MaxId.
MaxId == 2

Ids == 1..MaxId

(***************************************************************************)
(* JSON values, as far as the handlers tell them apart.                    *)
(***************************************************************************)
Null == [t |-> "null"]

Str(s) == [t |-> "str", s |-> s]

Ingredient(n, c, p) == [t |-> "obj", name |-> n, color |-> c, parts |-> p]

Arr(items) == [t |-> "arr", items |-> items]

Water == Ingredient("water", "blue", 1)

\* The titles and recipes requests carry: each has a falsy and a truthy value.
Titles == {Str(""), Str("water")}

Recipes == {Arr(<< >>), Arr(<<Water>>)}

\* Python truthiness of a JSON value: None, "" and [] are falsy.
Truthy(v) ==
    CASE v.t = "null" -> FALSE
      [] v.t = "str" -> v.s # ""
      [] v.t = "arr" -> Len(v.items) > 0
      [] OTHER -> TRUE

Digit(n) == <<"0", "1", "2", "3", "4", "5", "6", "7", "8", "9">>[n + 1]

RECURSIVE DumpsItems(_)
\* json.dumps of a recipe: the token sequence of its text.
Dumps(v) ==
    CASE v.t = "obj" ->
            <<"{", "name", v.name, "color", v.color, "parts", Digit(v.parts), "}">>
      [] v.t = "arr" -> <<"[">> \o DumpsItems(v.items) \o <<"]">>
      [] v.t = "str" -> <<"str", v.s>>
      [] OTHER -> <<"null">>

DumpsItems(items) ==
    IF items = << >> THEN << >>
    ELSE Dumps(Head(items)) \o DumpsItems(Tail(items))

\* The number of tokens of one ingredient object.
ObjLen == Len(Dumps(Water))

\* The value of a digit token.
Undigit(d) == CHOOSE n \in 0..9 : Digit(n) = d

\* The object whose text starts at position i of s.
LoadsObj(s, i) == Ingredient(s[i + 2], s[i + 4], Undigit(s[i + 6]))

\* json.loads of a stored recipe.
Loads(s) ==
    CASE s[1] = "{" -> LoadsObj(s, 1)
      [] s[1] = "[" ->
            Arr([k \in 1..((Len(s) - 2) \div ObjLen) |-> LoadsObj(s, 2 + (k - 1) * ObjLen)])
      [] s[1] = "str" -> Str(s[2])
      [] OTHER -> Null

(***************************************************************************)
(* Requests.                                                               *)
(***************************************************************************)
Permissions == {"get:drinks-detail", "post:drinks", "patch:drinks", "delete:drinks"}

\* A token that verifies, with its permission set (scoped: the claims carry
\* a permissions list at all).
ValidToken(scoped, perms) ==
    [hdr |-> "bearer", tok |-> "valid", scoped |-> scoped, perms |-> perms]

BadToken(hdr, tok) == [hdr |-> hdr, tok |-> tok, scoped |-> FALSE, perms |-> {}]

NoHeader == BadToken("absent", "none")

\* The tokens the verifier or the checker refuses whatever the route.
RefusedTokens ==
    {NoHeader, BadToken("malformed", "none")}
        \cup {BadToken("bearer", k) : k \in {"invalid", "expired", "bad_claims"}}
        \cup {ValidToken(FALSE, {})}

\* What the Authorization header of a request to a route requiring the
\* permission can be: a refused token, a valid one with that permission
\* alone, a valid one with every permission but that one.
Tokens(permission) ==
    RefusedTokens
        \cup {ValidToken(TRUE, {permission}), ValidToken(TRUE, Permissions \ {permission})}

\* A body that is a JSON object with the given fields.
Object(fields) == [kind |-> "object", fields |-> fields]

Fields ==
    {<< >>}
        \cup {[k \in {"title"} |-> t] : t \in Titles}
        \cup {[k \in {"recipe"} |-> r] : r \in Recipes}
        \cup {[k \in {"title", "recipe"} |-> IF k = "title" THEN t ELSE r] :
                t \in Titles, r \in Recipes}
        \cup {[title |-> Str("water"), recipe |-> Arr(<<Water>>), id |-> 1]}

\* A body get_json cannot decode, the JSON text null, and the JSON objects.
NullBody == [kind |-> "null", fields |-> << >>]

Malformed == [kind |-> "malformed", fields |-> << >>]

Bodies == {Malformed, NullBody} \cup {Object(f) : f \in Fields}

\* The bodies sent to the routes that never read one.
UnreadBodies == {Malformed, NullBody}

(***************************************************************************)
(* Responses.                                                              *)
(***************************************************************************)
\* jsonify of an error handler's envelope.
Envelope(status, message) ==
    [status |-> status,
     body |-> [kind |-> "json", success |-> FALSE, error |-> status, message |-> message]]

\* The framework's own error page: no handler is registered for the status.
DefaultPage(status) == [status |-> status, body |-> [kind |-> "html"]]

Unprocessable == Envelope(422, "unprocessable")

NotFound == Envelope(404, "resource not found")

\* abort(status), or an exception the framework turns into that status.
Abort(status) ==
    CASE status = 422 -> Unprocessable
      [] status = 404 -> NotFound
      [] OTHER -> DefaultPage(status)

\* auth_error answering 401 whatever the error's status.
auth_error_401(error) == Envelope(401, error.code)

\* The handler registered for AuthError.
auth_error(error) == Envelope(error.status_code, error.code)

DrinksOk(drinks) ==
    [status |-> 200, body |-> [kind |-> "json", success |-> TRUE, drinks |-> drinks]]

DeletedOk(id) ==
    [status |-> 200, body |-> [kind |-> "json", success |-> TRUE, deleted |-> id]]

(***************************************************************************)
(* requires_auth: the token verifier, then the permission checker.         *)
(***************************************************************************)
AuthError(status, code) == [ok |-> FALSE, status_code |-> status, code |-> code]

get_token_auth_header(token) ==
    CASE token.hdr = "absent" -> AuthError(401, "missing_header")
      [] token.hdr = "malformed" -> AuthError(401, "invalid_header")
      [] OTHER -> [ok |-> TRUE]

verify_decode_jwt(token) ==
    CASE token.tok = "invalid" -> AuthError(401, "invalid_token")
      [] token.tok = "expired" -> AuthError(401, "token_expired")
      [] token.tok = "bad_claims" -> AuthError(401, "invalid_claims")
      [] OTHER -> [ok |-> TRUE]

check_permissions(permission, token) ==
    IF ~token.scoped THEN AuthError(400, "permissions_missing")
    ELSE IF permission \notin token.perms THEN AuthError(403, "unauthorized")
    ELSE [ok |-> TRUE]

requires_auth(permission, token) ==
    LET h == get_token_auth_header(token)
        v == verify_decode_jwt(token)
    IN  IF ~h.ok THEN h
        ELSE IF ~v.ok THEN v
        ELSE check_permissions(permission, token)

(***************************************************************************)
(* The drinks table.                                                       *)
(***************************************************************************)
VARIABLES
    store,      \* the rows of the drinks table
    last,       \* the last request handled, the table before it, its response
    reqs        \* the requests being handled concurrently, by worker

vars == <<store, last, reqs>>

NoDrink == [id |-> 0, title |-> "", recipe |-> << >>]

\* Drink.query.filter(Drink.id == id).one_or_none(); an id is matched by at
\* most one row (UniqueIds).
one_or_none(id, table) ==
    LET rows == {d \in table : d.id = id}
    IN  IF rows = {} THEN [found |-> FALSE, drink |-> NoDrink]
        ELSE [found |-> TRUE, drink |-> CHOOSE d \in rows : TRUE]

IdsOf(table) == {d.id : d \in table}

\* The ids the table can give a new row.
NewIds(table) == Ids \ IdsOf(table)

\* Drink.insert(): the tables one INSERT can leave, the table choosing the id.
insert(title, recipe, table) ==
    {table \cup {[id |-> i, title |-> title, recipe |-> recipe]} : i \in NewIds(table)}

\* The row d with the columns a PATCH set.
Changed(d, changes) ==
    [id |-> d.id,
     title |-> IF "title" \in DOMAIN changes THEN changes.title ELSE d.title,
     recipe |-> IF "recipe" \in DOMAIN changes THEN changes.recipe ELSE d.recipe]

\* Drink.update(): the UPDATE of the columns set, on the rows with the id.
update(id, changes, table) ==
    {IF d.id = id THEN Changed(d, changes) ELSE d : d \in table}

\* Drink.delete(): the DELETE of the rows with the id.
delete(id, table) == {d \in table : d.id # id}

\* Drink.long() and Drink.short().
long(d) == [id |-> d.id, title |-> d.title, recipe |-> Loads(d.recipe)]

Redact(v) ==
    IF v.t = "obj" THEN [t |-> "obj", name |-> v.name, color |-> v.color]
    ELSE Arr([k \in 1..Len(v.items) |-> [t |-> "obj", name |-> v.items[k].name,
                                         color |-> v.items[k].color]])

short(d) == [id |-> d.id, title |-> d.title, recipe |-> Redact(Loads(d.recipe))]

RECURSIVE order_by_id(_)
\* Drink.query.order_by(Drink.id).all()
order_by_id(table) ==
    IF table = {} THEN << >>
    ELSE LET d == CHOOSE x \in table : \A y \in table : x.id <= y.id
         IN  <<d>> \o order_by_id(table \ {d})

(***************************************************************************)
(* The handlers.  Each returns the set of its outcomes [resp, store].      *)
(***************************************************************************)
Outcome(resp, table) == [resp |-> resp, store |-> table]

\* request.get_json(): BadRequest on a body it cannot decode, None on null.
get_json(body) ==
    IF body.kind = "malformed" THEN [ok |-> FALSE, status |-> 400]
    ELSE [ok |-> TRUE, isNone |-> body.kind = "null", fields |-> body.fields]

\* body.get(key)
Get(json, key) == IF key \in DOMAIN json.fields THEN json.fields[key] ELSE Null

get_drinks(table) ==
    {Outcome(DrinksOk([k \in 1..Cardinality(table) |-> short(order_by_id(table)[k])]), table)}

get_drinks_detail(token, table) ==
    LET a == requires_auth("get:drinks-detail", token)
    IN  IF ~a.ok THEN {Outcome(auth_error(a), table)}
        ELSE {Outcome(DrinksOk([k \in 1..Cardinality(table) |->
                                    long(order_by_id(table)[k])]), table)}

\* Drink(title=body['title'], recipe=json.dumps(body['recipe']))
new_drink(json) == [title |-> json.fields.title.s, recipe |-> Dumps(json.fields.recipe)]

\* post_body with the check as: 'title' not in body and 'recipe' not in body.
post_body_and(body, table) ==
    LET json == get_json(body)
    IN  IF ~json.ok THEN {Outcome(Abort(json.status), table)}
        ELSE IF json.isNone THEN {Outcome(Abort(500), table)}
        ELSE IF "title" \notin DOMAIN json.fields /\ "recipe" \notin DOMAIN json.fields
             THEN {Outcome(Abort(422), table)}
        ELSE IF {"title", "recipe"} \ DOMAIN json.fields # {}
             THEN {Outcome(Abort(500), table)}
        ELSE {Outcome(DrinksOk(<<long(CHOOSE d \in t \ table : TRUE)>>), t) :
                t \in insert(new_drink(json).title, new_drink(json).recipe, table)}

\* post_body passing the body's id, when it has one, on to the new row.
post_body_takes_id(body, table) ==
    LET json == get_json(body)
    IN  IF ~json.ok THEN {Outcome(Abort(json.status), table)}
        ELSE IF json.isNone THEN {Outcome(Abort(500), table)}
        ELSE IF "recipe" \notin DOMAIN json.fields THEN {Outcome(Abort(422), table)}
        ELSE IF "title" \notin DOMAIN json.fields THEN {Outcome(Abort(500), table)}
        ELSE IF "id" \in DOMAIN json.fields
             THEN LET d == [id |-> json.fields.id, title |-> new_drink(json).title,
                            recipe |-> new_drink(json).recipe]
                  IN  {Outcome(DrinksOk(<<long(d)>>), table \cup {d})}
        ELSE {Outcome(DrinksOk(<<long(CHOOSE d \in t \ table : TRUE)>>), t) :
                t \in insert(new_drink(json).title, new_drink(json).recipe, table)}

\* The body of post_drinks.
post_body(body, table) ==
    LET json == get_json(body)
    IN  IF ~json.ok THEN {Outcome(Abort(json.status), table)}
        ELSE IF json.isNone THEN {Outcome(Abort(500), table)}
        ELSE IF "recipe" \notin DOMAIN json.fields THEN {Outcome(Abort(422), table)}
        ELSE IF "title" \notin DOMAIN json.fields THEN {Outcome(Abort(500), table)}
        ELSE {Outcome(DrinksOk(<<long(CHOOSE d \in t \ table : TRUE)>>), t) :
                t \in insert(new_drink(json).title, new_drink(json).recipe, table)}

post_drinks(token, body, table) ==
    LET a == requires_auth("post:drinks", token)
    IN  IF ~a.ok THEN {Outcome(auth_error(a), table)}
        ELSE post_body(body, table)

\* PatchChanges testing the fields for presence, not for truth.
PatchChanges_present(json) ==
    [k \in DOMAIN json.fields \cap {"title", "recipe"} |->
        IF k = "title" THEN json.fields.title.s ELSE Dumps(json.fields.recipe)]

\* The columns patch_drinks sets on the drink it loaded.
PatchChanges(json) ==
    LET title == Get(json, "title")
        recipe == Get(json, "recipe")
    IN  CASE Truthy(title) /\ Truthy(recipe) ->
                [title |-> title.s, recipe |-> Dumps(json.fields.recipe)]
          [] Truthy(title) /\ ~Truthy(recipe) -> [title |-> title.s]
          [] ~Truthy(title) /\ Truthy(recipe) -> [recipe |-> Dumps(json.fields.recipe)]
          [] OTHER -> << >>

\* patch_load reading the body's fields before it looks at the drink.
patch_load_body_first(id, body, table) ==
    LET drink == one_or_none(id, table)
        json == get_json(body)
    IN  IF ~json.ok THEN [done |-> TRUE, resp |-> Abort(json.status)]
        ELSE IF json.isNone THEN [done |-> TRUE, resp |-> Abort(500)]
        ELSE IF ~drink.found THEN [done |-> TRUE, resp |-> Abort(404)]
        ELSE [done |-> FALSE, drink |-> drink.drink, changes |-> PatchChanges(json)]

\* patch_drinks up to drink.update(): a response, or the drink loaded and
\* the columns set on it.
patch_load(id, body, table) ==
    LET drink == one_or_none(id, table)
        json == get_json(body)
    IN  IF ~json.ok THEN [done |-> TRUE, resp |-> Abort(json.status)]
        ELSE IF ~drink.found THEN [done |-> TRUE, resp |-> Abort(404)]
        ELSE IF json.isNone THEN [done |-> TRUE, resp |-> Abort(500)]
        ELSE [done |-> FALSE, drink |-> drink.drink, changes |-> PatchChanges(json)]

\* drink.update() and the response, drink.long() reading the row again
\* after the commit; the commit fails when the row is gone.
patch_commit(loaded, table) ==
    IF ~one_or_none(loaded.drink.id, table).found THEN {Outcome(Abort(500), table)}
    ELSE LET t == update(loaded.drink.id, loaded.changes, table)
         IN  {Outcome(DrinksOk(<<long(one_or_none(loaded.drink.id, t).drink)>>), t)}

patch_drinks(token, id, body, table) ==
    LET a == requires_auth("patch:drinks", token)
        l == patch_load(id, body, table)
    IN  IF ~a.ok THEN {Outcome(auth_error(a), table)}
        ELSE IF l.done THEN {Outcome(l.resp, table)}
        ELSE patch_commit(l, table)

\* delete_drinks up to drink.delete().
delete_load(id, table) ==
    LET drink == one_or_none(id, table)
    IN  IF ~drink.found THEN [done |-> TRUE, resp |-> Abort(404)]
        ELSE [done |-> FALSE, drink |-> drink.drink]

\* delete_commit without the call of drink.delete().
delete_commit_forgotten(id, loaded, table) == {Outcome(DeletedOk(id), table)}

\* drink.delete() and the response; deleting a row that is gone either
\* passes unnoticed or fails the commit.
delete_commit(id, loaded, table) ==
    {Outcome(DeletedOk(id), delete(loaded.drink.id, table))}
        \cup IF one_or_none(loaded.drink.id, table).found THEN {}
             ELSE {Outcome(Abort(500), table)}

\* delete_drinks without its requires_auth decorator.
delete_drinks_ungated(token, id, table) ==
    LET l == delete_load(id, table)
    IN  IF l.done THEN {Outcome(l.resp, table)}
        ELSE delete_commit(id, l, table)

delete_drinks(token, id, table) ==
    LET a == requires_auth("delete:drinks", token)
        l == delete_load(id, table)
    IN  IF ~a.ok THEN {Outcome(auth_error(a), table)}
        ELSE IF l.done THEN {Outcome(l.resp, table)}
        ELSE delete_commit(id, l, table)

(***************************************************************************)
(* One request at a time.                                                  *)
(***************************************************************************)
\* db_drop_and_create_all(): an empty table, or the table with its one
\* sample row.
InitialTables == {{}, {[id |-> 1, title |-> "water", recipe |-> Dumps(Arr(<<Water>>))]}}

\* The workers that handle requests at the same time.
Workers == {"w1", "w2"}

Idle == [pc |-> "idle"]

Handled(op, token, id, body, pre, resp) ==
    [op |-> op, token |-> token, id |-> id, body |-> body, pre |-> pre, resp |-> resp]

Init ==
    /\ store \in InitialTables
    /\ last = Handled("none", NoHeader, 0, NullBody, store, DrinksOk(<< >>))
    /\ reqs = [w \in Workers |-> Idle]

GetDrinks ==
    \E token \in RefusedTokens \cup {ValidToken(TRUE, Permissions)} :
        \E o \in get_drinks(store) :
            /\ store' = o.store
            /\ last' = Handled("get_drinks", token, 0, NullBody, store, o.resp)
            /\ UNCHANGED reqs

GetDrinksDetail ==
    \E token \in Tokens("get:drinks-detail"), body \in UnreadBodies :
        \E o \in get_drinks_detail(token, store) :
            /\ store' = o.store
            /\ last' = Handled("get_drinks_detail", token, 0, body, store, o.resp)
            /\ UNCHANGED reqs

PostDrinks ==
    \E token \in Tokens("post:drinks"), body \in Bodies :
        \E o \in post_drinks(token, body, store) :
            /\ store' = o.store
            /\ last' = Handled("post_drinks", token, 0, body, store, o.resp)
            /\ UNCHANGED reqs

PatchDrinks ==
    \E token \in Tokens("patch:drinks"), id \in Ids, body \in Bodies :
        \E o \in patch_drinks(token, id, body, store) :
            /\ store' = o.store
            /\ last' = Handled("patch_drinks", token, id, body, store, o.resp)
            /\ UNCHANGED reqs

DeleteDrinks ==
    \E token \in Tokens("delete:drinks"), id \in Ids, body \in UnreadBodies :
        \E o \in delete_drinks(token, id, store) :
            /\ store' = o.store
            /\ last' = Handled("delete_drinks", token, id, body, store, o.resp)
            /\ UNCHANGED reqs

Next == GetDrinks \/ GetDrinksDetail \/ PostDrinks \/ PatchDrinks \/ DeleteDrinks

Spec == Init /\ [][Next]_vars

(***************************************************************************)
(* Requests handled at the same time.  A worker runs a handler up to its   *)
(* commit (the token check, the lookup, the fields set on the drink it     *)
(* loaded) in one step and the commit and the response in a later one;     *)
(* post_drinks touches the table in its insert alone and is one step.      *)
(***************************************************************************)
\* The requests the workers draw: with the route's permission or with no
\* header; a POST that creates and one without recipe; a PATCH that sets the
\* title and one that sets nothing.
WorkerTokens(permission) == {ValidToken(TRUE, {permission}), NoHeader}

WorkerPosts ==
    {Object([title |-> Str(""), recipe |-> Arr(<<Water>>)]), Object([title |-> Str("water")])}

WorkerPatches == {Object([title |-> Str("water")]), Object(<< >>)}

\* Worker w has answered.
Done(op, token, id, body, resp) ==
    [pc |-> "done", op |-> op, token |-> token, id |-> id, body |-> body, resp |-> resp]

\* Worker w holds the drink it looked up and has not committed; removed and
\* touched record what the other workers did to that id since.
Loaded(op, token, id, body, l) ==
    [pc |-> "loaded", op |-> op, token |-> token, id |-> id, body |-> body,
     drink |-> l.drink, changes |-> IF op = "patch_drinks" THEN l.changes ELSE << >>,
     removed |-> FALSE, touched |-> FALSE]

\* The record of worker v after another worker committed on the ids given.
Marked(r, written, gone) ==
    IF r.pc # "loaded" THEN r
    ELSE [r EXCEPT !.touched = @ \/ r.id \in written \cup gone,
                   !.removed = @ \/ r.id \in gone]

\* The workers' records after w answered resp, the table going from t to u.
Answered(w, op, token, id, body, resp, written, t, u) ==
    [v \in Workers |->
        IF v = w THEN Done(op, token, id, body, resp)
        ELSE Marked(reqs[v], written \cup (IdsOf(u) \ IdsOf(t)), IdsOf(t) \ IdsOf(u))]

WorkerPost(w) ==
    /\ reqs[w].pc = "idle"
    /\ \E token \in WorkerTokens("post:drinks"), body \in WorkerPosts :
        \E o \in post_drinks(token, body, store) :
            /\ store' = o.store
            /\ reqs' = Answered(w, "post_drinks", token, 0, body, o.resp, {}, store, o.store)
    /\ UNCHANGED last

WorkerPatchLoad(w) ==
    /\ reqs[w].pc = "idle"
    /\ \E token \in WorkerTokens("patch:drinks"), id \in Ids, body \in WorkerPatches :
        LET a == requires_auth("patch:drinks", token)
            l == patch_load(id, body, store)
        IN  reqs' = [reqs EXCEPT ![w] =
                IF ~a.ok THEN Done("patch_drinks", token, id, body, auth_error(a))
                ELSE IF l.done THEN Done("patch_drinks", token, id, body, l.resp)
                ELSE Loaded("patch_drinks", token, id, body, l)]
    /\ UNCHANGED <<store, last>>

WorkerPatchCommit(w) ==
    /\ reqs[w].pc = "loaded" /\ reqs[w].op = "patch_drinks"
    /\ \E o \in patch_commit(reqs[w], store) :
        /\ store' = o.store
        /\ reqs' = Answered(w, "patch_drinks", reqs[w].token, reqs[w].id, reqs[w].body, o.resp,
                            IF o.resp.status = 200 THEN {reqs[w].id} ELSE {}, store, o.store)
    /\ UNCHANGED last

WorkerDeleteLoad(w) ==
    /\ reqs[w].pc = "idle"
    /\ \E token \in WorkerTokens("delete:drinks"), id \in Ids :
        LET a == requires_auth("delete:drinks", token)
            l == delete_load(id, store)
        IN  reqs' = [reqs EXCEPT ![w] =
                IF ~a.ok THEN Done("delete_drinks", token, id, NullBody, auth_error(a))
                ELSE IF l.done THEN Done("delete_drinks", token, id, NullBody, l.resp)
                ELSE Loaded("delete_drinks", token, id, NullBody, l)]
    /\ UNCHANGED <<store, last>>

WorkerDeleteCommit(w) ==
    /\ reqs[w].pc = "loaded" /\ reqs[w].op = "delete_drinks"
    /\ \E o \in delete_commit(reqs[w].id, reqs[w], store) :
        /\ store' = o.store
        /\ reqs' = Answered(w, "delete_drinks", reqs[w].token, reqs[w].id, reqs[w].body, o.resp,
                            {}, store, o.store)
    /\ UNCHANGED last

\* The response is sent; the worker takes the next request.
WorkerRespond(w) ==
    /\ reqs[w].pc = "done"
    /\ reqs' = [reqs EXCEPT ![w] = Idle]
    /\ UNCHANGED <<store, last>>

NextWorkers ==
    \E w \in Workers :
        \/ WorkerPost(w)
        \/ WorkerPatchLoad(w)
        \/ WorkerPatchCommit(w)
        \/ WorkerDeleteLoad(w)
        \/ WorkerDeleteCommit(w)
        \/ WorkerRespond(w)

SpecWorkers == Init /\ [][NextWorkers]_vars

(***************************************************************************)
(* The routes, and what the properties below say of a handled request.     *)
(***************************************************************************)
\* The handler each route is bound to.
Handle(op, token, id, body, table) ==
    CASE op = "get_drinks" -> get_drinks(table)
      [] op = "get_drinks_detail" -> get_drinks_detail(token, table)
      [] op = "post_drinks" -> post_drinks(token, body, table)
      [] op = "patch_drinks" -> patch_drinks(token, id, body, table)
      [] op = "delete_drinks" -> delete_drinks(token, id, table)

GatedOps == {"get_drinks_detail", "post_drinks", "patch_drinks", "delete_drinks"}

\* The permission the design's route table gives each gated route.
Requires(op) ==
    CASE op = "get_drinks_detail" -> "get:drinks-detail"
      [] op = "post_drinks" -> "post:drinks"
      [] op = "patch_drinks" -> "patch:drinks"
      [] op = "delete_drinks" -> "delete:drinks"

\* h is a request to a gated route with a valid token holding its permission.
Authorized(h) ==
    /\ h.op \in GatedOps
    /\ h.token.hdr = "bearer" /\ h.token.tok = "valid" /\ h.token.scoped
    /\ Requires(h.op) \in h.token.perms

IsErrorEnvelope(resp) ==
    /\ resp.body.kind = "json"
    /\ ~resp.body.success
    /\ resp.body.error = resp.status
    /\ "message" \in DOMAIN resp.body

IsObject(body) == body.kind = "object"

Has(body, key) == IsObject(body) /\ key \in DOMAIN body.fields

\* The body supplies the field with a value that is not empty.
Supplies(body, key) == Has(body, key) /\ body.fields[key] \notin {Str(""), Arr(<< >>)}

\* C1: a request with no Authorization header to a gated route is answered
\* 401 and the table is as it was, whatever the body and the id.
C1_NoHeaderIs401 ==
    (last.op \in GatedOps /\ last.token.hdr = "absent") =>
        /\ last.resp.status = 401
        /\ IsErrorEnvelope(last.resp)
        /\ store = last.pre

\* A PATCH without a header that would have retitled an existing drink.
C1_Witness ==
    /\ last.op = "patch_drinks" /\ last.token.hdr = "absent"
    /\ Supplies(last.body, "title")
    /\ \E d \in last.pre : d.id = last.id /\ d.title # last.body.fields.title.s

\* The request is one its handler has no reason to refuse.
WellFormed(h) ==
    CASE h.op = "get_drinks_detail" -> TRUE
      [] h.op = "delete_drinks" -> h.id \in IdsOf(h.pre)
      [] h.op = "patch_drinks" -> h.id \in IdsOf(h.pre) /\ IsObject(h.body)
      [] h.op = "post_drinks" -> Has(h.body, "title") /\ Has(h.body, "recipe")
      [] OTHER -> FALSE

\* The same request with the route's permission taken out of its token is
\* answered 403 and leaves the table as it was.
DeniedWithoutPermission(h) ==
    LET token == [h.token EXCEPT !.perms = @ \ {Requires(h.op)}]
    IN  \A o \in Handle(h.op, token, h.id, h.body, h.pre) :
            /\ o.resp.status = 403
            /\ IsErrorEnvelope(o.resp)
            /\ o.store = h.pre

\* The body has all a handler reads of it (or the handler reads none).
BodyComplete(h) ==
    h.op \in {"get_drinks_detail", "delete_drinks"}
        \/ (Has(h.body, "title") /\ Has(h.body, "recipe"))

\* C2 as stated: every request to a gated route with a valid token holding
\* the route's permission succeeds, and is answered 403 without it (here
\* for the requests whose body has both fields, where no handler fails on
\* the body).
C2_AlwaysSucceeds ==
    (Authorized(last) /\ BodyComplete(last)) =>
        last.resp.status = 200 /\ DeniedWithoutPermission(last)

\* C2, amended: such a request is never refused for its token (401 or 403,
\* and 400 only for a body that cannot be decoded) and succeeds when its
\* handler has no reason to refuse it; without the permission it is
\* answered 403 and leaves the table as it was.
C2_AuthorizedPasses ==
    Authorized(last) =>
        /\ last.resp.status \notin {401, 403}
        /\ last.resp.status = 400 => last.body = Malformed
        /\ WellFormed(last) => last.resp.status = 200
        /\ DeniedWithoutPermission(last)

\* A DELETE that removed a drink, and would be answered 403 without its
\* permission.
C2_Witness ==
    /\ Authorized(last) /\ last.op = "delete_drinks"
    /\ last.resp.status = 200 /\ store # last.pre

\* C3: an authorized POST with a recipe and no title is answered 422 and
\* creates no row.
C3_TitleRequired ==
    (last.op = "post_drinks" /\ Authorized(last)
        /\ Has(last.body, "recipe") /\ IsObject(last.body) /\ ~Has(last.body, "title")) =>
        /\ last.resp.status = 422
        /\ store = last.pre

\* C4: an authorized POST with no recipe is answered 422 and the table has
\* as many rows as before.
C4_RecipeRequired ==
    (last.op = "post_drinks" /\ Authorized(last)
        /\ IsObject(last.body) /\ ~Has(last.body, "recipe")) =>
        /\ last.resp = Unprocessable
        /\ Cardinality(store) = Cardinality(last.pre)
        /\ store = last.pre

\* A POST with a title and no recipe, on a table that had room for a row.
C4_Witness ==
    /\ last.op = "post_drinks" /\ Authorized(last)
    /\ Has(last.body, "title") /\ ~Has(last.body, "recipe")
    /\ NewIds(last.pre) # {}

\* C5: an authorized PATCH of an existing drink replaces the fields supplied
\* with a value that is not empty and nothing else: the drink keeps its id,
\* the other fields and the other drinks are as they were.
C5_PatchReplacesSupplied ==
    (last.op = "patch_drinks" /\ Authorized(last)
        /\ last.id \in IdsOf(last.pre) /\ IsObject(last.body)) =>
        /\ last.resp.status = 200
        /\ \E old \in last.pre, new \in store :
            /\ old.id = last.id /\ new.id = last.id
            /\ new.title = IF Supplies(last.body, "title")
                           THEN last.body.fields.title.s ELSE old.title
            /\ IF Supplies(last.body, "recipe")
               THEN Loads(new.recipe) = last.body.fields.recipe
               ELSE new.recipe = old.recipe
            /\ store \ {new} = last.pre \ {old}
            /\ last.resp.body.drinks = <<long(new)>>

\* A PATCH with a title only that changed the title, another drink stored.
C5_Witness ==
    /\ last.op = "patch_drinks" /\ last.resp.status = 200
    /\ DOMAIN last.body.fields = {"title"}
    /\ \E old \in last.pre, new \in store :
        /\ old.id = last.id /\ new.id = last.id
        /\ old.title # new.title /\ old.recipe = new.recipe
    /\ Cardinality(store) > 1

C6_Step ==
    LET h == last'
    IN  /\ (h.op = "delete_drinks" /\ Authorized(h) /\ h.id \in IdsOf(store)) =>
            /\ h.resp = DeletedOk(h.id)
            /\ store' = {d \in store : d.id # h.id}
            /\ h.id \notin IdsOf(store')
        /\ (h.op # "post_drinks") => IdsOf(store') \subseteq IdsOf(store)
        /\ (h.op = "delete_drinks" /\ Authorized(h) /\ h.id \notin IdsOf(store)) =>
            /\ h.resp = NotFound
            /\ store' = store
        /\ (last.op = "delete_drinks" /\ last.resp.status = 200
                /\ h.op = "delete_drinks" /\ Authorized(h) /\ h.id = last.id) =>
            h.resp = NotFound

C7_UnknownIdIs404 ==
    (last.op \in {"patch_drinks", "delete_drinks"} /\ Authorized(last)
        /\ last.id \notin IdsOf(last.pre)) =>
        /\ last.resp = NotFound
        /\ store = last.pre

\* C7, amended: it leaves the table as it was for every body, and is
\* answered 404 unless it is a PATCH whose body cannot be decoded, which
\* is answered 400 before the handler looks at the drink it found.
C7_UnknownIdUnchanged ==
    (last.op \in {"patch_drinks", "delete_drinks"} /\ Authorized(last)
        /\ last.id \notin IdsOf(last.pre)) =>
        /\ store = last.pre
        /\ IF last.op = "patch_drinks" /\ last.body = Malformed
           THEN last.resp.status = 400
           ELSE last.resp = NotFound

\* A PATCH of an unknown id whose body would have set both fields.
C7_Witness ==
    /\ last.op = "patch_drinks" /\ Authorized(last)
    /\ last.id \notin IdsOf(last.pre)
    /\ Supplies(last.body, "title") /\ Supplies(last.body, "recipe")
    /\ last.resp = NotFound

\* C8: every response that is not a 200 is the error envelope.
C8_ErrorsAreEnvelopes == last.resp.status # 200 => IsErrorEnvelope(last.resp)

UniqueIds(table) == \A d, e \in table : d.id = e.id => d = e

\* The body without its id field.
WithoutId(body) ==
    [body EXCEPT !.fields = [k \in DOMAIN body.fields \ {"id"} |-> body.fields[k]]]

\* C9: no two drinks have the same id; a create adds one drink, its id new
\* and the same whether or not the body names an id, and leaves the others.
C9_UniqueIds ==
    /\ UniqueIds(store)
    /\ (last.op = "post_drinks" /\ last.resp.status = 200) =>
        /\ \E d \in store :
            /\ d.id \notin IdsOf(last.pre)
            /\ d \notin last.pre
            /\ store = last.pre \cup {d}
            /\ last.resp.body.drinks = <<long(d)>>
        /\ Cardinality(store) = Cardinality(last.pre) + 1
        /\ {o.store : o \in Handle("post_drinks", last.token, 0, last.body, last.pre)}
            = {o.store : o \in Handle("post_drinks", last.token, 0,
                                      WithoutId(last.body), last.pre)}

\* A create whose body named the id of a drink already stored.
C9_Witness ==
    /\ last.op = "post_drinks" /\ last.resp.status = 200
    /\ Has(last.body, "id") /\ last.body.fields.id \in IdsOf(last.pre)

\* What C10 says of the table in the step in which a worker, whose record
\* goes from r to r2, loads a drink or answers, the table going from t to u.
C10_Changes(r, r2, t, u) ==
    /\ (r.pc = "idle" /\ r2.pc = "loaded") => u = t
    /\ (r.pc # "done" /\ r2.pc = "done") =>
        /\ r2.resp.status # 200 => u = t
        /\ (r2.resp.status = 200 /\ r2.op = "post_drinks") =>
            \E d \in u \ t :
                /\ u = t \cup {d}
                /\ d.title = r2.body.fields.title.s
                /\ Loads(d.recipe) = r2.body.fields.recipe
        /\ (r2.resp.status = 200 /\ r2.op = "patch_drinks") =>
            \E d \in u :
                /\ d.id = r2.id
                /\ Supplies(r2.body, "title") => d.title = r2.body.fields.title.s
                /\ Supplies(r2.body, "recipe") => Loads(d.recipe) = r2.body.fields.recipe
        /\ (r2.resp.status = 200 /\ r2.op = "delete_drinks") => r2.id \notin IdsOf(u)
        /\ (r.pc = "idle" \/ ~r.touched) =>
            Outcome(r2.resp, u) \in Handle(r2.op, r2.token, r2.id, r2.body, t)

\* A PATCH whose drink a DELETE removed since the lookup is not answered 200.
C10_RemovedPatch(r, r2) ==
    (r.pc = "loaded" /\ r.removed /\ r2.pc = "done" /\ r2.op = "patch_drinks") =>
        r2.resp.status # 200

C10_Rest == [][\A w \in Workers : C10_Changes(reqs[w], reqs'[w], store, store')]_vars

====
